---- MODULE Spec2Model ----
(***************************************************************************)
(* A model of the mini-swe-agent of ollama-remote-mcp: the task parser,    *)
(* the model registry, the model selector, the execution coordinator with  *)
(* its timeout race and ordered fallback, and the orchestrating agent.     *)
(***************************************************************************)
EXTENDS Integers, Sequences, FiniteSets, TLC

(***************************************************************************)
(* Bounds of the model.                                                    *)
(***************************************************************************)
MaxCandidates == 3
MaxDescLen == 11
MaxConfigEntries == 2
MaxRequests == 2

(* The model names a caller can pass to the execution coordinator. *)
ModelNames == {"m1", "m2", "m3"}

(* The messages a failing chat call can carry; the empty one exercises the *)
(* `|| 'Execution failed'` default of executeWithFallback.                 *)
ChatErrorMessages == {"chat error", ""}

VARIABLES
    \* ---- TaskParser.parseTask ----
    input,         \* the TaskParserInput of the call
    parsed,        \* what parseTask returned or threw
    \* ---- TaskExecutor.executeWithFallback / executeTask ----
    execPc,        \* "idle" | "loop" | "race" | "done"
    modelsToTry,   \* [request.modelName, ...fallbackModels]
    i,             \* the loop index of executeWithFallback (1-based)
    errors,        \* the accumulated ExecutionError list
    chat,          \* per attempt: the state of its client.chat() promise
    chatError,     \* per attempt: the message its chat call rejected with
    timer,         \* per attempt: the state of its setTimeout timer
    outcome,       \* per attempt: what Promise.race settled with
    execResult,    \* what executeWithFallback returned
    chatLog,       \* the models client.chat() was called with, in order
    \* ---- ModelRegistry ----
    profiles,      \* the Map of profiles, as the sequence of its values
    loadResult,    \* how the last loadProfiles ended
    verified,      \* some verifyAvailability call has named a loaded model
    \* ---- ModelSelector.selectModel ----
    selTask,       \* the task of the last selectModel call
    selection,     \* what that call returned or threw, on the present registry
    repeated,      \* that call repeated the call before it, registry unchanged
    \* ---- MiniSWEAgent ----
    configFile,    \* the entries of the file at config.configPath
    initialized,   \* the agent's initialized flag
    agentPc,       \* where executeTask is
    agentResult,   \* how the promise of executeTask settled
    \* ---- ExecutionLogger, shared by the requests of one agent ----
    logLevel,      \* the level the logger was constructed with
    logs,          \* the logger's entries, each tagged with the request emitting it
    \* ---- concurrent calls of MiniSWEAgent.executeTask ----
    reqPc,         \* per request: "idle" | "loading" | "ready" | "awaiting" | "done"
    emitted,       \* per request: the entries logged while processing it
    reqResult,     \* per request: how its promise settled, with the logs returned
    loadCount,     \* the loadProfiles calls made by the agent's initialize()
    \* ---- the last call made on the registry ----
    lastCall,      \* its name and its argument
    \* ---- one attempt of TaskExecutor.executeTask, seen from its result ----
    response,      \* what client.chat() returned: content and token count
    executionTime, \* milliseconds from the start of the attempt to its end
    attemptResult  \* the ExecutionResult built from them

execVars == <<execPc, modelsToTry, i, errors, chat, chatError, timer, outcome,
              execResult, chatLog>>

parseVars == <<input, parsed>>

registryVars == <<profiles, loadResult, verified>>

selectVars == <<selTask, selection, repeated>>

agentVars == <<configFile, initialized, agentPc, agentResult>>

loggerVars == <<logLevel, logs>>

requestVars == <<reqPc, emitted, reqResult, loadCount>>

vars == <<parseVars, execVars, registryVars, selectVars, agentVars, loggerVars,
          requestVars, lastCall,
                 response, executionTime, attemptResult>>

(***************************************************************************)
(* TaskParser                                                              *)
(*                                                                         *)
(* A string is a sequence of one-character strings, so that trim,          *)
(* toLowerCase, length and includes are computed as the code computes      *)
(* them.                                                                   *)
(***************************************************************************)
MinDescriptionLength == 10

(* The characters String.prototype.trim strips that occur in the model. *)
WhiteSpace == {" ", "\t", "\n"}

CodeGenerationPatterns ==
    { <<"g", "e", "n", "e", "r", "a", "t", "e">>,
      <<"c", "r", "e", "a", "t", "e">>,
      <<"w", "r", "i", "t", "e", " ", "c", "o", "d", "e">>,
      <<"i", "m", "p", "l", "e", "m", "e", "n", "t">> }

BugFixingPatterns ==
    { <<"b", "u", "g">>,
      <<"f", "i", "x">>,
      <<"e", "r", "r", "o", "r">>,
      <<"i", "s", "s", "u", "e">>,
      <<"d", "e", "b", "u", "g">> }

CodeReviewPatterns ==
    { <<"r", "e", "v", "i", "e", "w">>,
      <<"a", "n", "a", "l", "y", "z", "e", " ", "c", "o", "d", "e">>,
      <<"c", "h", "e", "c", "k", " ", "c", "o", "d", "e">>,
      <<"a", "u", "d", "i", "t">> }

TestWritingPatterns ==
    { <<"t", "e", "s", "t">>,
      <<"u", "n", "i", "t", " ", "t", "e", "s", "t">>,
      <<"t", "e", "s", "t", "i", "n", "g">>,
      <<"t", "e", "s", "t", " ", "c", "a", "s", "e">> }

DocumentationPatterns ==
    { <<"d", "o", "c", "u", "m", "e", "n", "t">>,
      <<"d", "o", "c", "u", "m", "e", "n", "t", "a", "t", "i", "o", "n">>,
      <<"r", "e", "a", "d", "m", "e">>,
      <<"d", "o", "c">> }

ArchitecturePatterns ==
    { <<"a", "r", "c", "h", "i", "t", "e", "c", "t", "u", "r", "e">>,
      <<"d", "e", "s", "i", "g", "n">>,
      <<"s", "t", "r", "u", "c", "t", "u", "r", "e">>,
      <<"s", "y", "s", "t", "e", "m">> }

MathPatterns ==
    { <<"m", "a", "t", "h">>,
      <<"c", "a", "l", "c", "u", "l", "a", "t", "e">>,
      <<"f", "o", "r", "m", "u", "l", "a">>,
      <<"e", "q", "u", "a", "t", "i", "o", "n">>,
      <<"p", "r", "o", "o", "f">> }

ReasoningPatterns ==
    { <<"r", "e", "a", "s", "o", "n">>,
      <<"l", "o", "g", "i", "c">>,
      <<"d", "e", "d", "u", "c", "e">>,
      <<"i", "n", "f", "e", "r">>,
      <<"c", "o", "n", "c", "l", "u", "d", "e">> }

MultimodalPatterns ==
    { <<"i", "m", "a", "g", "e">>,
      <<"v", "i", "d", "e", "o">>,
      <<"a", "u", "d", "i", "o">>,
      <<"v", "i", "s", "u", "a", "l">>,
      <<"d", "i", "a", "g", "r", "a", "m">> }

CodePatterns ==
    { <<"c", "o", "d", "e">>,
      <<"f", "u", "n", "c", "t", "i", "o", "n">>,
      <<"c", "l", "a", "s", "s">>,
      <<"a", "p", "i">>,
      <<"p", "r", "o", "g", "r", "a", "m">>,
      <<"s", "c", "r", "i", "p", "t">> }

ExpertPatterns ==
    { <<"c", "o", "m", "p", "l", "e", "x">>,
      <<"a", "d", "v", "a", "n", "c", "e", "d">>,
      <<"s", "o", "p", "h", "i", "s", "t", "i", "c", "a", "t", "e", "d">>,
      <<"d", "i", "s", "t", "r", "i", "b", "u", "t", "e", "d">>,
      <<"s", "c", "a", "l", "a", "b", "l", "e">>,
      <<"h", "i", "g", "h", "-", "p", "e", "r", "f", "o", "r", "m", "a", "n", "c", "e">>,
      <<"o", "p", "t", "i", "m", "i", "z", "e">>,
      <<"r", "e", "f", "a", "c", "t", "o", "r", " ", "e", "n", "t", "i", "r", "e">>,
      <<"a", "r", "c", "h", "i", "t", "e", "c", "t", "u", "r", "a", "l">> }

ComplexPatterns ==
    { <<"m", "u", "l", "t", "i", "p", "l", "e">>,
      <<"i", "n", "t", "e", "g", "r", "a", "t", "e">>,
      <<"s", "y", "s", "t", "e", "m">>,
      <<"f", "r", "a", "m", "e", "w", "o", "r", "k">>,
      <<"a", "l", "g", "o", "r", "i", "t", "h", "m">>,
      <<"d", "e", "s", "i", "g", "n", " ", "p", "a", "t", "t", "e", "r", "n">> }

ModeratePatterns ==
    { <<"i", "m", "p", "l", "e", "m", "e", "n", "t">>,
      <<"c", "r", "e", "a", "t", "e">>,
      <<"b", "u", "i", "l", "d">>,
      <<"d", "e", "v", "e", "l", "o", "p">>,
      <<"f", "u", "n", "c", "t", "i", "o", "n">>,
      <<"c", "l", "a", "s", "s">> }

ToolUsePatterns ==
    { <<"t", "o", "o", "l">>,
      <<"c", "o", "m", "m", "a", "n", "d">>,
      <<"t", "e", "r", "m", "i", "n", "a", "l">>,
      <<"c", "l", "i">> }

CodeAnalysisPatterns ==
    { <<"a", "n", "a", "l", "y", "z", "e">>,
      <<"r", "e", "v", "i", "e", "w">>,
      <<"a", "u", "d", "i", "t">> }

ExplanationPatterns ==
    { <<"e", "x", "p", "l", "a", "i", "n">>,
      <<"d", "o", "c", "u", "m", "e", "n", "t">>,
      <<"d", "e", "s", "c", "r", "i", "b", "e">> }

DescriptionSamples ==
    { <<"W", "r", "i", "t", "e", " ", "a", " ", "f", "u", "n", "c", "t", "i", "o", "n", " ", "t", "o", " ", "c", "a", "l", "c", "u", "l", "a", "t", "e", " ", "f", "i", "b", "o", "n", "a", "c", "c", "i", " ", "n", "u", "m", "b", "e", "r", "s">>,
      <<"F", "i", "x", " ", "t", "h", "e", " ", "l", "o", "g", "i", "n", " ", "b", "u", "g">>,
      <<" ", " ", "R", "e", "v", "i", "e", "w", " ", "i", "t", " ", "\t", "\n">>,
      <<"E", "x", "p", "l", "a", "i", "n", " ", "t", "h", "e", " ", "l", "o", "g", "i", "c", " ", "o", "f", " ", "q", "u", "i", "c", "k", "s", "o", "r", "t">>,
      <<"S", "u", "m", "m", "a", "r", "i", "z", "e", " ", "t", "h", "i", "s", " ", "t", "e", "x", "t">> }

typeMap ==
    <<"c", "o", "d", "e", "_", "g", "e", "n", "e", "r", "a", "t", "i", "o", "n">> :> "code_generation" @@
    <<"c", "o", "d", "e", "g", "e", "n">> :> "code_generation" @@
    <<"g", "e", "n", "e", "r", "a", "t", "e">> :> "code_generation" @@
    <<"b", "u", "g", "_", "f", "i", "x", "i", "n", "g">> :> "bug_fixing" @@
    <<"b", "u", "g", "f", "i", "x">> :> "bug_fixing" @@
    <<"f", "i", "x">> :> "bug_fixing" @@
    <<"c", "o", "d", "e", "_", "r", "e", "v", "i", "e", "w">> :> "code_review" @@
    <<"r", "e", "v", "i", "e", "w">> :> "code_review" @@
    <<"t", "e", "s", "t", "_", "w", "r", "i", "t", "i", "n", "g">> :> "test_writing" @@
    <<"t", "e", "s", "t">> :> "test_writing" @@
    <<"t", "e", "s", "t", "i", "n", "g">> :> "test_writing" @@
    <<"d", "o", "c", "u", "m", "e", "n", "t", "a", "t", "i", "o", "n">> :> "documentation" @@
    <<"d", "o", "c", "s">> :> "documentation" @@
    <<"a", "r", "c", "h", "i", "t", "e", "c", "t", "u", "r", "e", "_", "a", "n", "a", "l", "y", "s", "i", "s">> :> "architecture_analysis" @@
    <<"a", "r", "c", "h", "i", "t", "e", "c", "t", "u", "r", "e">> :> "architecture_analysis" @@
    <<"d", "e", "s", "i", "g", "n">> :> "architecture_analysis"

InheritedKeys ==
    { <<"c", "o", "n", "s", "t", "r", "u", "c", "t", "o", "r">>,
      <<"_", "_", "p", "r", "o", "t", "o", "_", "_">> }

ExplicitTypeSamples ==
    { <<>>,
      <<"B", "u", "g", "F", "i", "x">>,
      <<"d", "o", "c", "s">>,
      <<"r", "e", "f", "a", "c", "t", "o", "r">>,
      <<"c", "o", "n", "s", "t", "r", "u", "c", "t", "o", "r">> }

LowerOf ==
    "A" :> "a" @@ "B" :> "b" @@ "C" :> "c" @@ "D" :> "d" @@ "E" :> "e" @@ "F" :> "f" @@
    "G" :> "g" @@ "H" :> "h" @@ "I" :> "i" @@ "J" :> "j" @@ "K" :> "k" @@ "L" :> "l" @@
    "M" :> "m" @@ "N" :> "n" @@ "O" :> "o" @@ "P" :> "p" @@ "Q" :> "q" @@ "R" :> "r" @@
    "S" :> "s" @@ "T" :> "t" @@ "U" :> "u" @@ "V" :> "v" @@ "W" :> "w" @@ "X" :> "x" @@
    "Y" :> "y" @@ "Z" :> "z"

RECURSIVE TrimStart(_)
TrimStart(s) ==
    IF s # <<>> /\ Head(s) \in WhiteSpace THEN TrimStart(Tail(s)) ELSE s

RECURSIVE TrimEnd(_)
TrimEnd(s) ==
    IF s # <<>> /\ s[Len(s)] \in WhiteSpace
    THEN TrimEnd(SubSeq(s, 1, Len(s) - 1))
    ELSE s

Trim_StartOnly(s) == TrimStart(s)

Trim(s) == TrimEnd(TrimStart(s))

ToLowerCase(s) ==
    [k \in 1..Len(s) |-> IF s[k] \in DOMAIN LowerOf THEN LowerOf[s[k]] ELSE s[k]]

Includes(text, pattern) ==
    \E k \in 0..(Len(text) - Len(pattern)) :
        SubSeq(text, k + 1, k + Len(pattern)) = pattern

matchesPatterns(text, patterns) ==
    \E pattern \in patterns : Includes(text, pattern)

(* validateTask: TRUE when it throws ValidationError. *)
validateTask_NoMinimum(inp) ==
    inp.description = <<>> \/ Len(Trim(inp.description)) = 0

validateTask(inp) ==
    \/ inp.description = <<>> \/ Len(Trim(inp.description)) = 0
    \/ Len(Trim(inp.description)) < MinDescriptionLength

(* normalizeTaskType: typeMap[type.toLowerCase()] || null. typeMap is an   *)
(* object literal, so a key it inherits from Object.prototype is found     *)
(* too and yields a value that is no task type.                            *)
NotATaskType == "inherited property"

normalizeTaskType(type) ==
    LET key == ToLowerCase(type)
    IN  IF key \in DOMAIN typeMap THEN typeMap[key]
        ELSE IF key \in InheritedKeys THEN NotATaskType
        ELSE "null"

inferTaskType(lowerDesc) ==
    IF matchesPatterns(lowerDesc, CodeGenerationPatterns) THEN "code_generation"
    ELSE IF matchesPatterns(lowerDesc, BugFixingPatterns) THEN "bug_fixing"
    ELSE IF matchesPatterns(lowerDesc, CodeReviewPatterns) THEN "code_review"
    ELSE IF matchesPatterns(lowerDesc, TestWritingPatterns) THEN "test_writing"
    ELSE IF matchesPatterns(lowerDesc, DocumentationPatterns) THEN "documentation"
    ELSE IF matchesPatterns(lowerDesc, ArchitecturePatterns) THEN "architecture_analysis"
    ELSE "general"

(* An absent and an empty explicit type are both falsy: <<>> stands for both. *)
detectTaskType(explicitType, description) ==
    IF explicitType # <<>> /\ normalizeTaskType(explicitType) # "null"
    THEN normalizeTaskType(explicitType)
    ELSE inferTaskType(ToLowerCase(description))

detectDomain(description, taskType) ==
    LET lowerDesc == ToLowerCase(description)
    IN  IF taskType \in {"code_generation", "bug_fixing", "code_review", "test_writing"}
        THEN "code"
        ELSE IF matchesPatterns(lowerDesc, MathPatterns) THEN "math"
        ELSE IF matchesPatterns(lowerDesc, ReasoningPatterns) THEN "reasoning"
        ELSE IF matchesPatterns(lowerDesc, MultimodalPatterns) THEN "multimodal"
        ELSE IF matchesPatterns(lowerDesc, CodePatterns) THEN "code"
        ELSE "general"

LongDescription == 500

MediumDescription == 200

detectComplexity(description) ==
    LET lowerDesc == ToLowerCase(description)
        length == Len(description)
    IN  IF matchesPatterns(lowerDesc, ExpertPatterns) THEN "expert"
        ELSE IF matchesPatterns(lowerDesc, ComplexPatterns) \/ length > LongDescription
             THEN "complex"
        ELSE IF matchesPatterns(lowerDesc, ModeratePatterns) \/ length > MediumDescription
             THEN "moderate"
        ELSE "simple"

(* The capabilities are collected in a Set and returned as an array: an    *)
(* array without duplicates, of which only membership and size are read.   *)
extractCapabilities_NoDefault(description, taskType, domain) ==
    LET lowerDesc == ToLowerCase(description)
    IN  (IF domain = "code" THEN {"code_generation"} ELSE {})
        \cup (IF domain = "math" THEN {"math"} ELSE {})
        \cup (IF domain = "reasoning" THEN {"reasoning"} ELSE {})
        \cup (IF domain = "multimodal" THEN {"multimodal"} ELSE {})
        \cup (IF taskType = "test_writing" THEN {"testing"} ELSE {})
        \cup (IF taskType = "bug_fixing" THEN {"debugging"} ELSE {})
        \cup (IF matchesPatterns(lowerDesc, ToolUsePatterns) THEN {"tool_use"} ELSE {})
        \cup (IF matchesPatterns(lowerDesc, CodeAnalysisPatterns) THEN {"code_analysis"} ELSE {})
        \cup (IF matchesPatterns(lowerDesc, ExplanationPatterns) THEN {"explanation"} ELSE {})

extractCapabilities(description, taskType, domain) ==
    LET lowerDesc == ToLowerCase(description)
    IN  (IF domain = "code" THEN {"code_generation"} ELSE {})
        \cup (IF domain = "math" THEN {"math"} ELSE {})
        \cup (IF domain = "reasoning" THEN {"reasoning"} ELSE {})
        \cup (IF domain = "multimodal" THEN {"multimodal"} ELSE {})
        \cup (IF taskType = "test_writing" THEN {"testing"} ELSE {})
        \cup (IF taskType = "bug_fixing" THEN {"debugging"} ELSE {})
        \cup (IF matchesPatterns(lowerDesc, ToolUsePatterns) THEN {"tool_use"} ELSE {})
        \cup (IF matchesPatterns(lowerDesc, CodeAnalysisPatterns) THEN {"code_analysis"} ELSE {})
        \cup (IF matchesPatterns(lowerDesc, ExplanationPatterns) THEN {"explanation"} ELSE {})
        \cup {"reasoning"}

(* The context is modelled by its length; NoContext is an absent context.  *)
NoContext == -1

calculateContextSize(context) ==
    IF context = NoContext \/ context = 0 THEN 0 ELSE context

parseTask(inp) ==
    IF validateTask(inp)
    THEN [kind |-> "ValidationError"]
    ELSE LET description == Trim(inp.description)
             taskType == detectTaskType(inp.taskType, description)
             domain == detectDomain(description, taskType)
         IN  [kind |-> "ok",
              task |-> [description |-> description,
                        domain |-> domain,
                        complexity |-> detectComplexity(description),
                        requiredCapabilities |->
                            extractCapabilities(description, taskType, domain),
                        contextSize |-> calculateContextSize(inp.context),
                        taskType |-> taskType]]

(* The inputs of the parser: every string over a blank and a letter up to  *)
(* MaxDescLen characters, and the sample descriptions with every sample    *)
(* explicit type and context.                                              *)
(* The description of the characterization example, given alone. *)
FibonacciDescription ==
    <<"W", "r", "i", "t", "e", " ", "a", " ", "f", "u", "n", "c", "t", "i", "o", "n", " ", "t", "o", " ", "c", "a", "l", "c", "u", "l", "a", "t", "e", " ", "f", "i", "b", "o", "n", "a", "c", "c", "i", " ", "n", "u", "m", "b", "e", "r", "s">>

FibonacciInput ==
    [description |-> FibonacciDescription, context |-> NoContext, taskType |-> <<>>]

ShortDescriptions ==
    UNION {[1..n -> {" ", "x"}] : n \in 0..MaxDescLen}

ContextSamples == {NoContext, 0, 40}

ParserInputs ==
    {[description |-> d, context |-> NoContext, taskType |-> <<>>] :
        d \in ShortDescriptions}
    \cup {[description |-> d, context |-> c, taskType |-> t] :
            d \in DescriptionSamples, c \in ContextSamples, t \in ExplicitTypeSamples}

NotParsed == [kind |-> "none"]

ParseInit ==
    /\ input \in ParserInputs
    /\ parsed = NotParsed

ParseIdle ==
    /\ input = [description |-> <<>>, context |-> NoContext, taskType |-> <<>>]
    /\ parsed = NotParsed

ParseTask ==
    /\ parsed = NotParsed
    /\ parsed' = parseTask(input)
    /\ UNCHANGED input


(***************************************************************************)
(* ModelRegistry                                                           *)
(***************************************************************************)
ComplexityLevels == <<"simple", "moderate", "complex", "expert">>

RequiredFields ==
    {"provider", "domains", "maxComplexity", "capabilities", "contextWindow",
     "estimatedLatency", "costPerToken", "strengths", "weaknesses"}

(* The entries a configuration file can hold, by model name: the fields    *)
(* the entry has and the values of those the registry reads.               *)
FullProfile ==
    [fields |-> RequiredFields,
     domains |-> {"code", "math"},
     maxComplexity |-> "expert",
     capabilities |-> {"code_generation", "math", "reasoning"},
     contextWindow |-> 80,
     estimatedLatency |-> 2539,
     costPerToken |-> 0]

Catalog ==
    [name \in {"m1", "m2", "m3", "m4", "bad"} |->
        CASE name = "m1" -> FullProfile
          [] name = "m2" -> [FullProfile EXCEPT !.estimatedLatency = 2548]
          [] name = "m3" -> [FullProfile EXCEPT !.estimatedLatency = 2557]
          [] name = "m4" -> [FullProfile EXCEPT !.estimatedLatency = 6157,
                                                !.contextWindow = 100000]
          [] name = "bad" -> [FullProfile EXCEPT !.contextWindow = 0]]

CatalogNames == DOMAIN Catalog

(* validateAndCreateProfile: TRUE when the entry passes every check. *)
ValidProfileData_PresenceOnly(data) == RequiredFields \subseteq data.fields

ValidProfileData(data) ==
    /\ RequiredFields \subseteq data.fields
    /\ data.domains # {}
    /\ data.capabilities # {}
    /\ data.contextWindow > 0
    /\ data.estimatedLatency >= 0
    /\ data.costPerToken >= 0
    /\ \E k \in 1..Len(ComplexityLevels) : ComplexityLevels[k] = data.maxComplexity

InitiallyAvailable_True == TRUE

InitiallyAvailable == FALSE

validateAndCreateProfile(modelName, data) ==
    [name |-> modelName,
     domains |-> data.domains,
     maxComplexity |-> data.maxComplexity,
     capabilities |-> data.capabilities,
     contextWindow |-> data.contextWindow,
     estimatedLatency |-> data.estimatedLatency,
     costPerToken |-> data.costPerToken,
     available |-> InitiallyAvailable]

(* Map.prototype.set on the insertion-ordered Map of profiles: a known key *)
(* keeps its place and gets the new value, a new key goes last.            *)
MapSet(profs, profile) ==
    IF \E k \in 1..Len(profs) : profs[k].name = profile.name
    THEN [k \in 1..Len(profs) |->
             IF profs[k].name = profile.name THEN profile ELSE profs[k]]
    ELSE Append(profs, profile)

(* The loop of loadProfiles over Object.entries(config.models). *)
RECURSIVE LoadEntries(_, _)
LoadEntries(profs, entries) ==
    IF entries = <<>> THEN profs
    ELSE LET modelName == Head(entries)
         IN  LoadEntries(
                 IF ValidProfileData(Catalog[modelName])
                 THEN MapSet(profs, validateAndCreateProfile(modelName, Catalog[modelName]))
                 ELSE profs,
                 Tail(entries))

getAvailableProfiles_AvoidingLast(profs) ==
    SelectSeq(profs, LAMBDA p :
        p.available /\ ~(selection.kind = "ok" /\ p.name = selection.selectedModel))

getAvailableProfiles_Unfiltered(profs) == profs

getAvailableProfiles(profs) == SelectSeq(profs, LAMBDA p : p.available)

ProfileNames(profs) == {profs[k].name : k \in 1..Len(profs)}

(* loadProfiles on a registry holding profs: the registry after the call   *)
(* and how the call ended. A file that cannot be read loads nothing; the   *)
(* call fails when the Map is empty after the loop.                        *)
loadProfiles(profs, config) ==
    IF ~config.readable
    THEN [profiles |-> profs, result |-> "ConfigurationError"]
    ELSE LET loaded == LoadEntries(profs, config.entries)
         IN  [profiles |-> loaded,
              result |-> IF Len(loaded) = 0 THEN "ConfigurationError" ELSE "ok"]

verifyAvailability_Additive(profs, availableModels) ==
    [k \in 1..Len(profs) |->
        [profs[k] EXCEPT !.available = (@ \/ profs[k].name \in availableModels)]]

verifyAvailability(profs, availableModels) ==
    [k \in 1..Len(profs) |->
        [profs[k] EXCEPT !.available = (profs[k].name \in availableModels)]]

(* The configuration files of the model: up to MaxConfigEntries entries of *)
(* the catalog, each model once, in any order; and an unreadable file.     *)
EntryLists ==
    {e \in UNION {[1..n -> CatalogNames] : n \in 0..MaxConfigEntries} :
        \A j, k \in 1..Len(e) : e[j] = e[k] => j = k}

ConfigFiles ==
    {[readable |-> TRUE, entries |-> e] : e \in EntryLists}
        \cup {[readable |-> FALSE, entries |-> <<>>]}

ValidNames == {n \in CatalogNames : ValidProfileData(Catalog[n])}

NoSelection == [kind |-> "none"]

NoTask == [kind |-> "none"]

RegistryInit ==
    /\ profiles = <<>>
    /\ loadResult = "none"
    /\ verified = FALSE

SelectIdle ==
    /\ selTask = NoTask
    /\ selection = NoSelection
    /\ repeated = FALSE

(* A change of the registry ends the validity of the recorded selection. *)
ForgetSelection ==
    /\ selTask' = NoTask
    /\ selection' = NoSelection
    /\ repeated' = FALSE

LoadProfiles(config) ==
    /\ profiles' = loadProfiles(profiles, config).profiles
    /\ loadResult' = loadProfiles(profiles, config).result
    /\ UNCHANGED verified
    /\ ForgetSelection

VerifyAvailability(availableModels) ==
    /\ profiles' = verifyAvailability(profiles, availableModels)
    /\ verified' = (verified \/ availableModels \cap ProfileNames(profiles) # {})
    /\ UNCHANGED loadResult
    /\ ForgetSelection

(***************************************************************************)
(* ModelSelector                                                           *)
(*                                                                         *)
(* Scores are held in hundredths, the unit Math.round(x * 100) / 100       *)
(* rounds to: the integer s stands for the number s / 100.                 *)
(***************************************************************************)
MaxLatency == 10000

MinLatency == 1000

Min(a, b) == IF a < b THEN a ELSE b

Max(a, b) == IF a > b THEN a ELSE b

(* Math.round(a / b) for a >= 0, b > 0: to the nearest, a half goes up. *)
RoundDiv(a, b) == (2 * a + b) \div (2 * b)

LevelOf(c) == (CHOOSE k \in 1..Len(ComplexityLevels) : ComplexityLevels[k] = c) - 1

calculateDomainMatch(task, profile) ==
    IF task.domain \in profile.domains THEN 100
    ELSE IF task.domain = "general" \/ "general" \in profile.domains THEN 50
    ELSE IF task.domain = "reasoning" /\ "code" \in profile.domains THEN 40
    ELSE 0

calculateComplexityMatch_FlatPenalty(task, profile) ==
    IF LevelOf(profile.maxComplexity) >= LevelOf(task.complexity) THEN 100 ELSE 70

calculateComplexityMatch(task, profile) ==
    LET taskLevel == LevelOf(task.complexity)
        modelLevel == LevelOf(profile.maxComplexity)
    IN  IF modelLevel >= taskLevel THEN 100
        ELSE Max(0, 100 - (taskLevel - modelLevel) * 30)

(* calculateCapabilityMatch is matched / required * 100: the pair          *)
(* <<matched, required>>, <<1, 1>> when nothing is required.               *)
CapabilityRatio(task, profile) ==
    IF task.requiredCapabilities = {} THEN <<1, 1>>
    ELSE <<Cardinality(task.requiredCapabilities \cap profile.capabilities),
           Cardinality(task.requiredCapabilities)>>

calculateContextMatch(task, profile) ==
    LET estimatedTaskSize == Len(task.description) + task.contextSize
    IN  IF 2 * estimatedTaskSize <= profile.contextWindow THEN 100
        ELSE IF 5 * estimatedTaskSize <= 4 * profile.contextWindow THEN 80
        ELSE IF estimatedTaskSize <= profile.contextWindow THEN 60
        ELSE 0

normalizedLatency(profile) ==
    Min(Max(profile.estimatedLatency, MinLatency), MaxLatency)

(* calculateLatencyScore is 100 - (normalized - 1000) / 9000 * 100, that   *)
(* is (10000 - normalized) / 90.                                           *)
scoreModel(task, profile) ==
    LET d == calculateDomainMatch(task, profile)
        c == calculateComplexityMatch(task, profile)
        cap == CapabilityRatio(task, profile)
        ctx == calculateContextMatch(task, profile)
        lat == MaxLatency - normalizedLatency(profile)
        \* 100 * (0.3 d + 0.25 c + 0.25 cap + 0.1 ctx + 0.1 lat), over 9 * cap[2]
        total == 9 * cap[2] * (30 * d + 25 * c + 10 * ctx) + 22500 * cap[1]
                     + cap[2] * lat
    IN  [modelName |-> profile.name,
         score |-> RoundDiv(total, 9 * cap[2]),
         domainMatch |-> 100 * d,
         complexityMatch |-> 100 * c,
         capabilityMatch |-> RoundDiv(10000 * cap[1], cap[2]),
         contextMatch |-> 100 * ctx,
         latencyScore |-> RoundDiv(10 * lat, 9)]

(* The doubles nearest to two numbers of two decimals that differ by 0.01  *)
(* differ by a little less or a little more than the double 0.01. For      *)
(* s / 100 in [2^e, 2^(e+1)) the double is a multiple of 2^(e-52), so the  *)
(* rounding error of s / 100, in hundredths of that unit, is decided by    *)
(* s * 2^(52-e) modulo 100.                                                *)
BinaryExponent(s) ==
    IF s < 200 THEN 0 ELSE IF s < 400 THEN 1 ELSE IF s < 800 THEN 2
    ELSE IF s < 1600 THEN 3 ELSE IF s < 3200 THEN 4 ELSE IF s < 6400 THEN 5 ELSE 6

(* 2^(52-e) modulo 100, for e = 0..6. *)
UnitsModulo100 == <<96, 48, 24, 12, 56, 28, 64>>

DoubleError(s, e) ==
    LET rem == (s * UnitsModulo100[e + 1]) % 100
    IN  IF rem < 50 THEN 0 - rem ELSE 100 - rem

(* double((s + 1) / 100) - double(s / 100) < double(0.01), for s >= 100.   *)
DoubleNearTie(s) ==
    DoubleError(s + 1, BinaryExponent(s)) - DoubleError(s, BinaryExponent(s)) <= 0

(* Math.abs(a.score - b.score) < 0.01 *)
ScoresTie(x, y) ==
    \/ x = y
    \/ x - y = 1 /\ DoubleNearTie(y)
    \/ y - x = 1 /\ DoubleNearTie(x)

(* The comparator of scores.sort: negative when a goes before b. *)
compareScores(a, b) ==
    IF ScoresTie(a.score, b.score)
    THEN a.latencyScore - b.latencyScore
    ELSE b.score - a.score

(* Array.prototype.sort of the engine on a short array: the leading run is *)
(* found (and reversed when strictly descending), then every later element *)
(* is put in place by binary insertion.                                    *)
RECURSIVE RunEnd(_, _, _)
RunEnd(a, descending, idx) ==
    IF idx > Len(a) THEN idx - 1
    ELSE LET order == compareScores(a[idx], a[idx - 1])
         IN  IF (descending /\ order >= 0) \/ (~descending /\ order < 0)
             THEN idx - 1
             ELSE RunEnd(a, descending, idx + 1)

Reverse(a) == [k \in 1..Len(a) |-> a[Len(a) + 1 - k]]

CountAndMakeRun(a) ==
    LET descending == compareScores(a[2], a[1]) < 0
        run == RunEnd(a, descending, 3)
    IN  <<IF descending
          THEN Reverse(SubSeq(a, 1, run)) \o SubSeq(a, run + 1, Len(a))
          ELSE a,
          run>>

RECURSIVE InsertionPoint(_, _, _, _)
InsertionPoint(a, pivot, left, right) ==
    IF left >= right THEN left
    ELSE LET mid == left + ((right - left) \div 2)
         IN  IF compareScores(pivot, a[mid]) < 0
             THEN InsertionPoint(a, pivot, left, mid)
             ELSE InsertionPoint(a, pivot, mid + 1, right)

RECURSIVE BinaryInsertionSort(_, _)
BinaryInsertionSort(a, start) ==
    IF start > Len(a) THEN a
    ELSE LET left == InsertionPoint(a, a[start], 1, start)
         IN  BinaryInsertionSort(
                 SubSeq(a, 1, left - 1) \o <<a[start]>> \o SubSeq(a, left, start - 1)
                     \o SubSeq(a, start + 1, Len(a)),
                 start + 1)

SortScores(a) ==
    IF Len(a) < 2 THEN a
    ELSE LET made == CountAndMakeRun(a)
         IN  BinaryInsertionSort(made[1], made[2] + 1)

MaxAlternatives == 3

selectModel_FromFirst(task, profs) ==
    LET availableProfiles == getAvailableProfiles(profs)
    IN  IF Len(availableProfiles) = 0
        THEN [kind |-> "AvailabilityError"]
        ELSE LET scores == SortScores([k \in 1..Len(availableProfiles) |->
                                          scoreModel(task, availableProfiles[k])])
             IN  [kind |-> "ok",
                  selectedModel |-> scores[1].modelName,
                  score |-> scores[1],
                  alternatives |->
                      SubSeq(scores, 1, Min(Len(scores), MaxAlternatives))]

selectModel(task, profs) ==
    LET availableProfiles == getAvailableProfiles(profs)
    IN  IF Len(availableProfiles) = 0
        THEN [kind |-> "AvailabilityError"]
        ELSE LET scores == SortScores([k \in 1..Len(availableProfiles) |->
                                          scoreModel(task, availableProfiles[k])])
             IN  [kind |-> "ok",
                  selectedModel |-> scores[1].modelName,
                  score |-> scores[1],
                  alternatives |->
                      SubSeq(scores, 2, Min(Len(scores), 1 + MaxAlternatives))]


(* The tasks the selector is given: what parseTask returns for the sample  *)
(* descriptions, without and with a context of 40 characters.              *)
SelectTasks ==
    {parseTask(inp).task :
        inp \in {x \in [description : DescriptionSamples,
                        context : {NoContext, 40},
                        taskType : {<<>>}] : ~validateTask(x)}}

SelectModel(task) ==
    /\ selection' = selectModel(task, profiles)
    /\ selTask' = task
    /\ repeated' = (selection # NoSelection /\ selTask = task)
    /\ UNCHANGED registryVars

(***************************************************************************)
(* TaskExecutor                                                            *)
(***************************************************************************)
Attempts == 1..MaxCandidates

NoResult == [kind |-> "none"]

TimeoutMessage == "Execution timeout"

ExecInit ==
    /\ execPc = "idle"
    /\ modelsToTry = <<>>
    /\ i = 1
    /\ errors = <<>>
    /\ chat = [j \in Attempts |-> "none"]
    /\ chatError = [j \in Attempts |-> ""]
    /\ timer = [j \in Attempts |-> "unset"]
    /\ outcome = [j \in Attempts |-> "none"]
    /\ execResult = NoResult
    /\ chatLog = <<>>

(* Promise.race: the race promise settles with the first of its inputs to  *)
(* settle; a promise that is already settled ignores every later settle.   *)
SettleRace_LastWins(current, event) ==
    IF current = "none" THEN current ELSE event

SettleRace(current, event) ==
    IF current = "pending" THEN event ELSE current

(* executeTask's catch block: the failed result carries error.message;     *)
(* executeWithFallback reads it as `result.metadata?.error || default`.    *)
AttemptError(j) ==
    LET msg == IF outcome[j] = "timeout" THEN TimeoutMessage ELSE chatError[j]
    IN  IF msg = "" THEN "Execution failed" ELSE msg

RecordFailure_Dropped(errs, model, msg) == errs

RecordFailure(errs, model, msg) ==
    Append(errs, [modelAttempted |-> model, error |-> msg])

(* Where executeWithFallback goes after a successful attempt: it returns.  *)
AfterSuccess_KeepsGoing == "loop"

AfterSuccess == "done"

(* executeWithFallback is called: errors = [], modelsToTry built.          *)
ExecuteWithFallback(primary, fallbackModels) ==
    /\ execPc = "idle"
    /\ execPc' = "loop"
    /\ modelsToTry' = <<primary>> \o fallbackModels
    /\ i' = 1
    /\ errors' = <<>>
    /\ UNCHANGED <<chat, chatError, timer, outcome, execResult, chatLog>>

(* setTimeout in executeTask: the timer of the attempt is armed. *)
ArmedTimer_Unset == "unset"

ArmedTimer == "armed"

(* One iteration starts: executeTask arms the timer, calls client.chat()   *)
(* and awaits the race of the two.                                         *)
StartAttempt ==
    /\ execPc = "loop"
    /\ i <= Len(modelsToTry)
    /\ timer' = [timer EXCEPT ![i] = ArmedTimer]
    /\ chat' = [chat EXCEPT ![i] = "pending"]
    /\ chatLog' = Append(chatLog, modelsToTry[i])
    /\ outcome' = [outcome EXCEPT ![i] = "pending"]
    /\ execPc' = "race"
    /\ UNCHANGED <<modelsToTry, i, errors, chatError, execResult>>

(* The chat call of attempt j completes with a response. *)
ChatResolve(j) ==
    /\ chat[j] = "pending"
    /\ chat' = [chat EXCEPT ![j] = "resolved"]
    /\ outcome' = [outcome EXCEPT ![j] = SettleRace(@, "resolved")]
    /\ UNCHANGED <<execPc, modelsToTry, i, errors, chatError, timer,
                   execResult, chatLog>>

(* The chat call of attempt j fails. *)
ChatReject(j, msg) ==
    /\ chat[j] = "pending"
    /\ chat' = [chat EXCEPT ![j] = "rejected"]
    /\ chatError' = [chatError EXCEPT ![j] = msg]
    /\ outcome' = [outcome EXCEPT ![j] = SettleRace(@, "rejected")]
    /\ UNCHANGED <<execPc, modelsToTry, i, errors, timer, execResult, chatLog>>

(* The timer of attempt j fires; it is never cleared, so it fires also     *)
(* after the attempt has ended.                                            *)
TimerFire(j) ==
    /\ timer[j] = "armed"
    /\ timer' = [timer EXCEPT ![j] = "fired"]
    /\ outcome' = [outcome EXCEPT ![j] = SettleRace(@, "timeout")]
    /\ UNCHANGED <<execPc, modelsToTry, i, errors, chat, chatError,
                   execResult, chatLog>>

(* `await Promise.race(...)` resumes only once the race has settled. *)
RaceSettled_NoWait(j) == TRUE

RaceSettled(j) == outcome[j] \notin {"none", "pending"}

(* The await of the race resumes: success returns, failure is recorded and *)
(* the loop goes on.                                                       *)
ResumeAfterRace ==
    /\ execPc = "race"
    /\ RaceSettled(i)
    /\ IF outcome[i] = "resolved"
       THEN /\ execPc' = AfterSuccess
            /\ IF AfterSuccess = "done"
               THEN /\ execResult' = [kind |-> "success", modelUsed |-> modelsToTry[i]]
                    /\ i' = i
               ELSE /\ execResult' = execResult
                    /\ i' = i + 1
            /\ errors' = errors
       ELSE /\ errors' = RecordFailure(errors, modelsToTry[i], AttemptError(i))
            /\ i' = i + 1
            /\ execPc' = "loop"
            /\ execResult' = execResult
    /\ UNCHANGED <<modelsToTry, chat, chatError, timer, outcome, chatLog>>

(* The loop is over: every candidate failed, the error list is returned.   *)
ReturnErrors ==
    /\ execPc = "loop"
    /\ i > Len(modelsToTry)
    /\ execPc' = "done"
    /\ execResult' = [kind |-> "errors", errors |-> errors]
    /\ UNCHANGED <<modelsToTry, i, errors, chat, chatError, timer, outcome,
                   chatLog>>

FallbackLists ==
    UNION {[1..n -> ModelNames] : n \in 0..(MaxCandidates - 1)}

outsideExec ==
    <<parseVars, registryVars, selectVars, agentVars, loggerVars, requestVars,
      lastCall,
                 response, executionTime, attemptResult>>

ExecNext ==
    \/ /\ \E primary \in ModelNames, fallbackModels \in FallbackLists :
             ExecuteWithFallback(primary, fallbackModels)
       /\ UNCHANGED outsideExec
    \/ StartAttempt /\ UNCHANGED outsideExec
    \/ (\E j \in Attempts : ChatResolve(j)) /\ UNCHANGED outsideExec
    \/ /\ \E j \in Attempts, msg \in ChatErrorMessages : ChatReject(j, msg)
       /\ UNCHANGED outsideExec
    \/ (\E j \in Attempts : TimerFire(j)) /\ UNCHANGED outsideExec
    \/ ResumeAfterRace /\ UNCHANGED outsideExec
    \/ ReturnErrors /\ UNCHANGED outsideExec

(***************************************************************************)
(* TaskExecutor.executeTask: the result of one attempt                     *)
(***************************************************************************)
(* A response is its content, a text followed by `padding` characters "x", *)
(* and the token count of the provider: <<n>>, or <<>> when it gave none.  *)
ContentLength(resp) == Len(resp.text) + resp.padding

(* The code fence of three backquotes; "^" stands for the backquote.       *)
Fence == <<"^", "^", "^">>

ResponseSamples ==
    [text : { <<>>,
              <<"o", "k">>,
              Fence \o <<"j", "s">> \o Fence,
              <<"B", "e", "c", "a", "u", "s", "e", " ", "i", "t">>,
              <<"n", "o", " ", "R", "E", "A", "S", "O", "N">>,
              Fence \o <<"b", "e", "c", "a", "u", "s", "e">> },
     padding : {0, 990, 991, 1990, 1991},
     tokens : {<<>>, <<0>>, <<7>>}]

estimateTokens(resp) == (ContentLength(resp) + 3) \div 4

calculateConfidence_CaseSensitive(resp, time) ==
    Max(0, Min(100,
        50 + (IF ContentLength(resp) > 1000 THEN 10 ELSE 0)
           + (IF ContentLength(resp) > 2000 THEN 10 ELSE 0)
           + (IF time > 5000 /\ time < 30000 THEN 10 ELSE 0)
           - (IF time < 1000 THEN 10 ELSE 0)
           + (IF Includes(resp.text, Fence) THEN 10 ELSE 0)
           + (IF Includes(resp.text, <<"b", "e", "c", "a", "u", "s", "e">>)
                   \/ Includes(resp.text, <<"r", "e", "a", "s", "o", "n">>)
              THEN 5 ELSE 0)))

calculateConfidence(resp, time) ==
    LET lower == ToLowerCase(resp.text)
        confidence ==
            50 + (IF ContentLength(resp) > 1000 THEN 10 ELSE 0)
               + (IF ContentLength(resp) > 2000 THEN 10 ELSE 0)
               + (IF time > 5000 /\ time < 30000 THEN 10 ELSE 0)
               - (IF time < 1000 THEN 10 ELSE 0)
               + (IF Includes(resp.text, Fence) THEN 10 ELSE 0)
               + (IF Includes(lower, <<"b", "e", "c", "a", "u", "s", "e">>)
                       \/ Includes(lower, <<"r", "e", "a", "s", "o", "n">>)
                  THEN 5 ELSE 0)
    IN  Max(0, Min(100, confidence))

AttemptIdle ==
    /\ response = [text |-> <<>>, padding |-> 0, tokens |-> <<>>]
    /\ executionTime = 0
    /\ attemptResult = [pending |-> TRUE, success |-> FALSE, tokensUsed |-> 0,
                        confidence |-> 0]

(* The race resolved with the response: the success result.  The token    *)
(* count is `result.tokensUsed || this.estimateTokens(result.content)`,    *)
(* and || takes its right side when the left one is undefined or 0.        *)
AttemptSucceeds ==
    /\ attemptResult.pending
    /\ attemptResult' =
           [pending |-> FALSE, success |-> TRUE,
            tokensUsed |-> IF response.tokens # <<>> /\ response.tokens[1] # 0
                           THEN response.tokens[1]
                           ELSE estimateTokens(response),
            confidence |-> calculateConfidence(response, executionTime)]
    /\ UNCHANGED <<response, executionTime>>

(* The race rejected, by the chat call or by the timer: the failed result. *)
AttemptFails ==
    /\ attemptResult.pending
    /\ attemptResult' = [pending |-> FALSE, success |-> FALSE, tokensUsed |-> 0,
                         confidence |-> 0]
    /\ UNCHANGED <<response, executionTime>>

(***************************************************************************)
(* ResultFormatter                                                         *)
(***************************************************************************)
formatResult(task, sel, execution) ==
    [task |-> task,
     execution |-> [modelUsed |-> execution.modelUsed],
     selection |-> [selectedModel |-> sel.selectedModel,
                    alternatives |-> sel.alternatives],
     result |-> [metadata |-> [taskType |-> task.taskType,
                               domain |-> task.domain,
                               complexity |-> task.complexity]]]

formatError(task, error) ==
    [task |-> task,
     execution |-> [modelUsed |-> "none"],
     selection |-> [selectedModel |-> "none", alternatives |-> <<>>],
     result |-> [metadata |-> [error |-> error, success |-> FALSE]]]

(***************************************************************************)
(* ExecutionLogger                                                         *)
(***************************************************************************)
LogLevels == <<"DEBUG", "INFO", "WARN", "ERROR">>

LevelIndex(level) == CHOOSE k \in 1..Len(LogLevels) : LogLevels[k] = level

shouldLog(level) == LevelIndex(level) >= LevelIndex(logLevel)

(* logger.log on the entries lg: the entry is pushed when its level passes. *)
(* An entry carries the request that emitted it, which stands for its      *)
(* timestamp and details.                                                  *)
Log(lg, r, level, step) ==
    IF shouldLog(level)
    THEN Append(lg, [by |-> r, level |-> level, step |-> step])
    ELSE lg

(* The calls of a sequence of <<level, step>> pairs, one after the other. *)
RECURSIVE LogAll(_, _, _)
LogAll(lg, r, calls) ==
    IF calls = <<>> THEN lg
    ELSE LogAll(Log(lg, r, Head(calls)[1], Head(calls)[2]), r, Tail(calls))

LoggerIdle ==
    /\ logLevel = "INFO"
    /\ logs = <<>>

Requests == 1..MaxRequests

RequestsIdle ==
    /\ reqPc = [r \in Requests |-> "idle"]
    /\ emitted = [r \in Requests |-> <<>>]
    /\ reqResult = [r \in Requests |-> [kind |-> "pending"]]
    /\ loadCount = 0

NoCall == [op |-> "none"]

(***************************************************************************)
(* MiniSWEAgent                                                            *)
(*                                                                         *)
(* One call of executeTask at a time. A call starts with the coordinator   *)
(* in its initial state: the timers and chat calls an earlier call left    *)
(* behind change nothing any more (SettleRace) and are not kept.           *)
(***************************************************************************)
NotSettled == [kind |-> "pending"]

AgentIdle ==
    /\ configFile = [readable |-> FALSE, entries |-> <<>>]
    /\ initialized = FALSE
    /\ agentPc = "idle"
    /\ agentResult = NotSettled

AgentInit ==
    /\ configFile \in ConfigFiles
    /\ initialized = FALSE
    /\ agentPc = "idle"
    /\ agentResult = NotSettled

(* The inputs given to the agent: the sample descriptions, one of them too *)
(* short when trimmed.                                                     *)
AgentInputs ==
    {[description |-> d, context |-> NoContext, taskType |-> <<>>] :
        d \in DescriptionSamples}
    \cup {[FibonacciInput EXCEPT !.context = 40]}

(* SystemPromptGenerator.formatContext: the length of the part of the      *)
(* system prompt that carries the context, which is framed and included    *)
(* whole; no part when there is no context.                                *)
ContextFrame == 57

formatContext(context) ==
    IF context = NoContext \/ context = 0 THEN 0 ELSE ContextFrame + context

(* TaskExecutor.formatMessage: the description alone. *)
formatMessage(task) == task.description

(* executeTask is called; it initializes the agent first when needed. *)
AgentExecuteTask(inp) ==
    /\ agentPc \in {"idle", "done"}
    /\ input' = inp
    /\ parsed' = NotParsed
    /\ agentResult' = NotSettled
    /\ agentPc' = IF initialized THEN "parse" ELSE "initialize"
    /\ ForgetSelection
    /\ execPc' = "idle"
    /\ modelsToTry' = <<>>
    /\ i' = 1
    /\ errors' = <<>>
    /\ chat' = [j \in Attempts |-> "none"]
    /\ chatError' = [j \in Attempts |-> ""]
    /\ timer' = [j \in Attempts |-> "unset"]
    /\ outcome' = [j \in Attempts |-> "none"]
    /\ execResult' = NoResult
    /\ chatLog' = <<>>
    /\ UNCHANGED <<loggerVars, requestVars, lastCall,
                 response, executionTime, attemptResult, registryVars,
                   configFile, initialized>>

(* initialize(): loadProfiles, then verifyAvailability of every profile of *)
(* the registry. It is awaited before the try block of executeTask, so its *)
(* failure is the failure of executeTask.                                  *)
AgentInitialize ==
    /\ agentPc = "initialize"
    /\ LET load == loadProfiles(profiles, configFile)
       IN  /\ loadResult' = load.result
           /\ IF load.result = "ok"
              THEN /\ profiles' = verifyAvailability(load.profiles,
                                                     ProfileNames(load.profiles))
                   /\ verified' = TRUE
                   /\ initialized' = TRUE
                   /\ agentPc' = "parse"
                   /\ agentResult' = agentResult
              ELSE /\ profiles' = load.profiles
                   /\ verified' = verified
                   /\ initialized' = initialized
                   /\ agentPc' = "done"
                   /\ agentResult' = [kind |-> "rejected",
                                      error |-> "ConfigurationError"]
    /\ UNCHANGED <<loggerVars, requestVars, lastCall,
                 response, executionTime, attemptResult, parseVars, execVars,
                   selectVars, configFile>>

(* Step 1 of the try block: parseTask. *)
AgentParse ==
    /\ agentPc = "parse"
    /\ parsed' = parseTask(input)
    /\ agentPc' = IF parseTask(input).kind = "ok" THEN "select" ELSE "catch"
    /\ UNCHANGED <<loggerVars, requestVars, lastCall,
                 response, executionTime, attemptResult, input, execVars,
                   registryVars, selectVars, configFile, initialized,
                   agentResult>>

(* Step 5: the fallback models are the names of the alternatives. *)
fallbackModelsOf_WithSelected(sel) ==
    <<sel.selectedModel>>
        \o [k \in 1..Len(sel.alternatives) |-> sel.alternatives[k].modelName]

fallbackModelsOf(sel) ==
    [k \in 1..Len(sel.alternatives) |-> sel.alternatives[k].modelName]

(* Steps 2 to 5: selectModel, then executeWithFallback with the selected   *)
(* model and the alternatives as fallback models.                          *)
AgentSelect ==
    /\ agentPc = "select"
    /\ LET sel == selectModel(parsed.task, profiles)
       IN  /\ selection' = sel
           /\ selTask' = parsed.task
           /\ repeated' = FALSE
           /\ IF sel.kind = "ok"
              THEN /\ ExecuteWithFallback(sel.selectedModel, fallbackModelsOf(sel))
                   /\ agentPc' = "execute"
              ELSE /\ UNCHANGED execVars
                   /\ agentPc' = "catch"
    /\ UNCHANGED <<loggerVars, requestVars, lastCall,
                 response, executionTime, attemptResult, parseVars, registryVars,
                   configFile, initialized, agentResult>>

(* Steps 6 and 7: an error list is formatted as an error result, a success *)
(* as a result.                                                            *)
AgentFormat ==
    /\ agentPc = "execute"
    /\ execPc = "done"
    /\ agentResult' =
           IF execResult.kind = "errors"
           THEN [kind |-> "resolved",
                 value |-> formatError(parsed.task,
                                       [kind |-> "All models failed",
                                        errors |-> execResult.errors])]
           ELSE [kind |-> "resolved",
                 value |-> formatResult(parsed.task, selection, execResult)]
    /\ agentPc' = "done"
    /\ UNCHANGED <<loggerVars, requestVars, lastCall,
                 response, executionTime, attemptResult, parseVars, execVars,
                   registryVars, selectVars, configFile, initialized>>

(* The catch block: it parses the input again to format the error; when    *)
(* that parseTask throws, the exception leaves executeTask.                *)
AgentCatch ==
    /\ agentPc = "catch"
    /\ agentResult' =
           IF parseTask(input).kind = "ok"
           THEN [kind |-> "resolved",
                 value |-> formatError(parseTask(input).task,
                                       [kind |-> IF parsed.kind = "ok"
                                                 THEN selection.kind
                                                 ELSE parsed.kind,
                                        errors |-> <<>>])]
           ELSE [kind |-> "rejected", error |-> parseTask(input).kind]
    /\ agentPc' = "done"
    /\ UNCHANGED <<loggerVars, requestVars, lastCall,
                 response, executionTime, attemptResult, parseVars, execVars,
                   registryVars, selectVars, configFile, initialized>>

(* A holder of getModelRegistry() calls verifyAvailability between two     *)
(* requests.                                                               *)
RegistryVerified(availableModels) ==
    /\ agentPc = "done"
    /\ VerifyAvailability(availableModels)
    /\ UNCHANGED <<loggerVars, requestVars, lastCall,
                 response, executionTime, attemptResult, parseVars, execVars,
                   agentVars>>

AgentNext ==
    \/ \E inp \in AgentInputs : AgentExecuteTask(inp)
    \/ AgentInitialize
    \/ AgentParse
    \/ AgentSelect
    \/ agentPc = "execute" /\ StartAttempt /\ UNCHANGED outsideExec
    \/ /\ agentPc = "execute"
       /\ \E j \in Attempts : ChatResolve(j)
       /\ UNCHANGED outsideExec
    \/ /\ agentPc = "execute"
       /\ \E j \in Attempts, msg \in ChatErrorMessages : ChatReject(j, msg)
       /\ UNCHANGED outsideExec
    \/ /\ agentPc = "execute"
       /\ \E j \in Attempts : TimerFire(j)
       /\ UNCHANGED outsideExec
    \/ agentPc = "execute" /\ ResumeAfterRace /\ UNCHANGED outsideExec
    \/ agentPc = "execute" /\ ReturnErrors /\ UNCHANGED outsideExec
    \/ AgentFormat
    \/ AgentCatch
    \/ \E availableModels \in SUBSET ValidNames : RegistryVerified(availableModels)

InitAgent ==
    /\ AgentInit /\ ParseIdle /\ ExecInit /\ RegistryInit /\ SelectIdle
    /\ LoggerIdle /\ RequestsIdle /\ lastCall = NoCall /\ AttemptIdle

SpecAgent == InitAgent /\ [][AgentNext]_vars

(***************************************************************************)
(* Concurrent requests: MaxRequests calls of executeTask on one            *)
(* initialized agent. A call runs without interruption up to its await of  *)
(* executeWithFallback and again from there to its return; the calls share *)
(* the agent's logger.                                                     *)
(***************************************************************************)
(* The logger calls of executeTask from logger.clear() to the await, or to *)
(* the catch block when parseTask or selectModel throws.                   *)
CallsBeforeAwait(p, sel) ==
    <<  <<"INFO", "Starting task execution">>, <<"DEBUG", "Parsing task">> >>
    \o (IF p.kind # "ok"
        THEN << <<"ERROR", "Task execution failed">> >>
        ELSE << <<"INFO", "Task parsed">>, <<"DEBUG", "Selecting model">> >>
             \o (IF sel.kind # "ok"
                 THEN << <<"ERROR", "Task execution failed">> >>
                 ELSE << <<"INFO", "Model selected">>,
                         <<"DEBUG", "Generating system prompt">>,
                         <<"DEBUG", "Executing task">> >>))

(* executeTask is called for request r on an agent that is not             *)
(* initialized: it enters initialize(), which awaits the reading of the    *)
(* configuration file inside loadProfiles.                                 *)
RequestInitialize(r) ==
    /\ reqPc[r] = "idle"
    /\ ~initialized
    /\ reqPc' = [reqPc EXCEPT ![r] = "loading"]
    /\ logs' = Log(logs, r, "INFO", "Initializing Mini-SWE Agent")
    /\ UNCHANGED <<logLevel, emitted, reqResult, loadCount, parseVars, execVars,
                   registryVars, selectVars, agentVars, lastCall,
                 response, executionTime, attemptResult>>

(* The file has been read for request r: loadProfiles stores the profiles, *)
(* initialize() verifies every profile and sets initialized; a failed load *)
(* rejects the request.                                                    *)
RequestLoaded(r) ==
    /\ reqPc[r] = "loading"
    /\ loadCount' = loadCount + 1
    /\ LET load == loadProfiles(profiles, configFile)
       IN  /\ loadResult' = load.result
           /\ IF load.result = "ok"
              THEN /\ profiles' = verifyAvailability(load.profiles,
                                                     ProfileNames(load.profiles))
                   /\ verified' = TRUE
                   /\ initialized' = TRUE
                   /\ reqPc' = [reqPc EXCEPT ![r] = "ready"]
                   /\ reqResult' = reqResult
                   /\ logs' = LogAll(logs, r,
                                     << <<"INFO", "Model profiles loaded successfully">>,
                                        <<"INFO", "Mini-SWE Agent initialized successfully">> >>)
              ELSE /\ profiles' = load.profiles
                   /\ verified' = verified
                   /\ initialized' = initialized
                   /\ reqPc' = [reqPc EXCEPT ![r] = "done"]
                   /\ reqResult' = [reqResult EXCEPT ![r] =
                                       [kind |-> "rejected", outcome |-> "caught",
                                        logs |-> <<>>]]
                   /\ logs' = Log(logs, r, "ERROR", "Failed to initialize Mini-SWE Agent")
    /\ UNCHANGED <<logLevel, emitted, parseVars, execVars, selectVars, configFile,
                   agentPc, agentResult, lastCall,
                 response, executionTime, attemptResult>>

(* executeTask for request r, from logger.clear() to its first await or to *)
(* its end: clear the logger, parse, select, log each step.                *)
RequestStart(r, inp) ==
    /\ reqPc[r] = "ready" \/ (reqPc[r] = "idle" /\ initialized)
    /\ LET p == parseTask(inp)
           sel == IF p.kind = "ok" THEN selectModel(p.task, profiles) ELSE NoSelection
           after == LogAll(<<>>, r, CallsBeforeAwait(p, sel))
       IN  /\ logs' = after
           /\ emitted' = [emitted EXCEPT ![r] = after]
           /\ reqPc' = [reqPc EXCEPT ![r] =
                           IF p.kind = "ok" /\ sel.kind = "ok" THEN "awaiting" ELSE "done"]
           /\ reqResult' = [reqResult EXCEPT ![r] =
                               IF p.kind # "ok"
                               THEN [kind |-> "rejected", outcome |-> "caught",
                                     logs |-> <<>>]
                               ELSE IF sel.kind # "ok"
                               THEN [kind |-> "resolved", outcome |-> "caught",
                                     logs |-> after]
                               ELSE @]
    /\ UNCHANGED <<logLevel, parseVars, execVars, registryVars, selectVars,
                   agentVars, lastCall,
                 response, executionTime, attemptResult, loadCount>>

(* The await of executeWithFallback resumes for request r, with a result   *)
(* or with the error list; the step is logged and getLogs() goes into the  *)
(* formatted result.                                                       *)
RequestResume(r, succeeded) ==
    /\ reqPc[r] = "awaiting"
    /\ LET level == IF succeeded THEN "INFO" ELSE "ERROR"
           step == IF succeeded THEN "Task execution completed" ELSE "All models failed"
       IN  /\ logs' = Log(logs, r, level, step)
           /\ emitted' = [emitted EXCEPT ![r] = Log(@, r, level, step)]
           /\ reqResult' = [reqResult EXCEPT ![r] =
                               [kind |-> "resolved",
                                outcome |-> IF succeeded THEN "success"
                                            ELSE "all failed",
                                logs |-> Log(logs, r, level, step)]]
    /\ reqPc' = [reqPc EXCEPT ![r] = "done"]
    /\ UNCHANGED <<logLevel, parseVars, execVars, registryVars, selectVars,
                   agentVars, lastCall,
                 response, executionTime, attemptResult, loadCount>>

ConcurrentNext ==
    \/ \E r \in Requests : RequestInitialize(r)
    \/ \E r \in Requests : RequestLoaded(r)
    \/ \E r \in Requests, inp \in AgentInputs : RequestStart(r, inp)
    \/ \E r \in Requests, succeeded \in BOOLEAN : RequestResume(r, succeeded)

(* The agent is new, or it has been initialized from its file, which has  *)
(* one valid entry, and the holder of the registry may have reported no    *)
(* model available since.                                                  *)
InitConcurrent ==
    /\ configFile = [readable |-> TRUE, entries |-> <<"m1">>]
    /\ agentPc = "idle"
    /\ agentResult = NotSettled
    /\ \/ /\ initialized = FALSE
          /\ RegistryInit
          /\ loadCount = 0
       \/ /\ initialized = TRUE
          /\ \E availableModels \in {{}, {"m1"}} :
                profiles = verifyAvailability(loadProfiles(<<>>, configFile).profiles,
                                              availableModels)
          /\ loadResult = "ok"
          /\ verified = TRUE
          /\ loadCount = 1
    /\ logLevel \in {LogLevels[k] : k \in DOMAIN LogLevels}
    /\ logs = <<>>
    /\ reqPc = [r \in Requests |-> "idle"]
    /\ emitted = [r \in Requests |-> <<>>]
    /\ reqResult = [r \in Requests |-> [kind |-> "pending"]]
    /\ lastCall = NoCall /\ AttemptIdle
    /\ SelectIdle /\ ParseIdle /\ ExecInit

SpecConcurrent == InitConcurrent /\ [][ConcurrentNext]_vars

(***************************************************************************)
(* The registry and the selector alone: any sequence of loadProfiles,      *)
(* verifyAvailability and selectModel calls.                               *)
(***************************************************************************)
SelectNext ==
    \/ /\ \E config \in ConfigFiles : LoadProfiles(config)
       /\ UNCHANGED <<parseVars, execVars, agentVars, loggerVars, requestVars,
                      lastCall,
                 response, executionTime, attemptResult>>
    \/ /\ \E availableModels \in SUBSET ValidNames : VerifyAvailability(availableModels)
       /\ UNCHANGED <<parseVars, execVars, agentVars, loggerVars, requestVars,
                      lastCall,
                 response, executionTime, attemptResult>>
    \/ /\ \E task \in SelectTasks : SelectModel(task)
       /\ UNCHANGED <<parseVars, execVars, agentVars, loggerVars, requestVars,
                      lastCall,
                 response, executionTime, attemptResult>>

InitSelect ==
    /\ RegistryInit /\ SelectIdle /\ ParseIdle /\ ExecInit /\ AgentIdle
    /\ LoggerIdle /\ RequestsIdle /\ lastCall = NoCall /\ AttemptIdle

SpecSelect == InitSelect /\ [][SelectNext]_vars

(***************************************************************************)
(* The registry on its own: any sequence of loadProfiles and               *)
(* verifyAvailability calls, the last call being remembered.               *)
(***************************************************************************)
RegistryLoad(config) ==
    /\ LoadProfiles(config)
    /\ lastCall' = [op |-> "loadProfiles", config |-> config, models |-> {}]
    /\ UNCHANGED <<parseVars, execVars, agentVars, loggerVars, requestVars,
                 response, executionTime, attemptResult>>

RegistryVerify(availableModels) ==
    /\ VerifyAvailability(availableModels)
    /\ lastCall' = [op |-> "verifyAvailability",
                    config |-> [readable |-> FALSE, entries |-> <<>>],
                    models |-> availableModels]
    /\ UNCHANGED <<parseVars, execVars, agentVars, loggerVars, requestVars,
                 response, executionTime, attemptResult>>

RegistryNext ==
    \/ \E config \in ConfigFiles : RegistryLoad(config)
    \/ \E availableModels \in SUBSET ValidNames : RegistryVerify(availableModels)

InitRegistry ==
    /\ RegistryInit /\ lastCall = NoCall /\ AttemptIdle
    /\ SelectIdle /\ ParseIdle /\ ExecInit /\ AgentIdle /\ LoggerIdle /\ RequestsIdle

SpecRegistry == InitRegistry /\ [][RegistryNext]_vars

(***************************************************************************)
(* The execution coordinator alone: one call of executeWithFallback.       *)
(***************************************************************************)
InitExec ==
    /\ ExecInit /\ ParseIdle /\ RegistryInit /\ SelectIdle /\ AgentIdle
    /\ LoggerIdle /\ RequestsIdle /\ lastCall = NoCall /\ AttemptIdle

AttemptNext ==
    \/ /\ AttemptSucceeds
       /\ UNCHANGED <<parseVars, execVars, registryVars, selectVars, agentVars,
                      loggerVars, requestVars, lastCall>>
    \/ /\ AttemptFails
       /\ UNCHANGED <<parseVars, execVars, registryVars, selectVars, agentVars,
                      loggerVars, requestVars, lastCall>>

InitAttempt ==
    /\ response \in ResponseSamples
    /\ executionTime \in {0, 999, 1000, 5000, 5001, 29999, 30000}
    /\ attemptResult = [pending |-> TRUE, success |-> FALSE, tokensUsed |-> 0,
                        confidence |-> 0]
    /\ ExecInit /\ ParseIdle /\ RegistryInit /\ SelectIdle /\ AgentIdle
    /\ LoggerIdle /\ RequestsIdle /\ lastCall = NoCall

SpecAttempt == InitAttempt /\ [][AttemptNext]_vars

SpecExec == InitExec /\ [][ExecNext]_vars

(* The same with the scheduling of the event loop: a continuation that is  *)
(* ready runs, and an armed timer fires. Nothing makes a chat call         *)
(* complete.                                                               *)
ExecFairness ==
    /\ WF_vars(StartAttempt /\ UNCHANGED outsideExec)
    /\ WF_vars(ResumeAfterRace /\ UNCHANGED outsideExec)
    /\ WF_vars(ReturnErrors /\ UNCHANGED outsideExec)
    /\ \A j \in Attempts : WF_vars(TimerFire(j) /\ UNCHANGED outsideExec)

SpecExecFair == SpecExec /\ ExecFairness

(***************************************************************************)
(* The parser alone: one call of parseTask on an input of ParserInputs.    *)
(***************************************************************************)
ParseNext ==
    /\ ParseTask
    /\ UNCHANGED <<execVars, registryVars, selectVars, agentVars, loggerVars,
                   requestVars, lastCall,
                 response, executionTime, attemptResult>>

InitParse ==
    /\ ParseInit /\ ExecInit /\ RegistryInit /\ SelectIdle /\ AgentIdle
    /\ LoggerIdle /\ RequestsIdle /\ lastCall = NoCall /\ AttemptIdle

SpecParse == InitParse /\ [][ParseNext]_vars

(***************************************************************************)
(* Parse then select, on the registry of the scoring example: one          *)
(* available profile for code.                                             *)
(***************************************************************************)
ExampleProfileData ==
    [FullProfile EXCEPT !.domains = {"code"},
                        !.capabilities = {"code_generation", "reasoning"},
                        !.contextWindow = 100000,
                        !.estimatedLatency = 3000]

ExampleRegistry ==
    verifyAvailability(
        MapSet(<<>>, validateAndCreateProfile("example", ExampleProfileData)),
        {"example"})

(* The same registry with the profile's maxComplexity at each level. *)
ExampleRegistries ==
    {[k \in 1..1 |-> [ExampleRegistry[k] EXCEPT !.maxComplexity = ComplexityLevels[l]]] :
        l \in DOMAIN ComplexityLevels}

(* Descriptions of a complex and of an expert task. *)
ComplexityInputs ==
    {[description |-> d, context |-> NoContext, taskType |-> <<>>] :
        d \in { <<"I", "n", "t", "e", "g", "r", "a", "t", "e", " ", "t", "h", "e", " ", "p", "a", "y", "m", "e", "n", "t", " ", "s", "y", "s", "t", "e", "m">>,
                <<"O", "p", "t", "i", "m", "i", "z", "e", " ", "t", "h", "e", " ", "s", "c", "h", "e", "d", "u", "l", "e", "r">> }}

PipelineSelect ==
    /\ parsed # NotParsed
    /\ parsed.kind = "ok"
    /\ selection = NoSelection
    /\ SelectModel(parsed.task)
    /\ UNCHANGED <<parseVars, execVars, agentVars, loggerVars, requestVars,
                   lastCall,
                 response, executionTime, attemptResult>>

PipelineNext ==
    \/ ParseNext
    \/ PipelineSelect

InitPipeline ==
    /\ input \in ParserInputs \cup ComplexityInputs
    /\ parsed = NotParsed
    /\ profiles \in ExampleRegistries /\ loadResult = "ok" /\ verified = TRUE
    /\ lastCall = NoCall /\ AttemptIdle
    /\ SelectIdle /\ ExecInit /\ AgentIdle /\ LoggerIdle /\ RequestsIdle

SpecPipeline == InitPipeline /\ [][PipelineNext]_vars

(***************************************************************************)
(* Properties of the parser                                                *)
(***************************************************************************)
NonBlank(s) == {k \in 1..Len(s) : s[k] \notin WhiteSpace}

(* The number of characters from the first to the last non-blank one. *)
TrimmedLength(s) ==
    IF NonBlank(s) = {} THEN 0
    ELSE LET first == CHOOSE k \in NonBlank(s) : \A m \in NonBlank(s) : k <= m
             last == CHOOSE k \in NonBlank(s) : \A m \in NonBlank(s) : k >= m
         IN  last - first + 1

(* C4: validation. parseTask fails with ValidationError, and returns no    *)
(* descriptor, exactly when the description is empty, all blank, or has    *)
(* fewer than 10 characters once trimmed; for every other description it   *)
(* returns a descriptor, whose description is the trimmed text.            *)
C4_Validation ==
    parsed # NotParsed =>
        IF TrimmedLength(input.description) < 10
        THEN parsed = [kind |-> "ValidationError"]
        ELSE /\ parsed.kind = "ok"
             /\ Len(parsed.task.description) = TrimmedLength(input.description)

C4_Witness ==
    /\ parsed = [kind |-> "ValidationError"]
    /\ Len(input.description) = 11
    /\ TrimmedLength(input.description) = 9

(***************************************************************************)
(* Properties of the execution coordinator                                 *)
(***************************************************************************)
Failed(j) == outcome[j] \in {"rejected", "timeout"}

Tried == 1..Len(modelsToTry)

(* C1: fallback exhaustion. When the call has returned and the attempt on  *)
(* every candidate failed (its chat call rejected or its timer fired       *)
(* first), the call returned an error list, not a success and not an       *)
(* exception, with exactly one entry per candidate, whose modelAttempted   *)
(* values are the candidates in the order tried.                           *)
C1_FallbackExhaustion ==
    (execPc = "done" /\ \A j \in Tried : Failed(j)) =>
        /\ execResult.kind = "errors"
        /\ Len(execResult.errors) = Len(modelsToTry)
        /\ \A j \in Tried : execResult.errors[j].modelAttempted = modelsToTry[j]

C1_Witness ==
    /\ execPc = "done"
    /\ modelsToTry = <<"m1", "m2", "m3">>
    /\ outcome[1] = "rejected" /\ outcome[2] = "timeout" /\ outcome[3] = "rejected"
    /\ execResult.kind = "errors"
    /\ Len(execResult.errors) = 3

(* C2: fallback short-circuit. Once the attempt on candidate k succeeded,  *)
(* exactly the candidates 1..k have been given a chat call and no later    *)
(* one ever is; every candidate before k failed; and the call returns the  *)
(* success result whose modelUsed is candidate k.                          *)
C2_ShortCircuit ==
    \A k \in Tried :
        outcome[k] = "resolved" =>
            /\ chatLog = SubSeq(modelsToTry, 1, k)
            /\ \A j \in 1..(k - 1) : Failed(j)
            /\ execPc \in {"race", "done"}
            /\ execPc = "done" =>
                   execResult = [kind |-> "success", modelUsed |-> modelsToTry[k]]

C2_Witness ==
    /\ execPc = "done"
    /\ modelsToTry = <<"m1", "m2", "m3">>
    /\ Failed(1)
    /\ outcome[2] = "resolved"
    /\ execResult = [kind |-> "success", modelUsed |-> "m2"]
    /\ chatLog = <<"m1", "m2">>

(* C3: timeout race. The outcome of an attempt is fixed by the first of    *)
(* (chat completion, timer) and no later event changes it; an event on an  *)
(* attempt that is already decided (a late chat response, a late timer)    *)
(* changes neither the error list nor the returned result nor the loop     *)
(* position; and every attempt the loop has left was recorded as failed    *)
(* with the error of its first event, a timeout being recorded as a        *)
(* timeout.                                                                *)
Decided(j) == outcome[j] \notin {"none", "pending"}

LateEvent(j) ==
    /\ Decided(j)
    /\ chat'[j] # chat[j] \/ timer'[j] # timer[j]

C3_TimeoutRace ==
    /\ [][\A j \in Attempts : Decided(j) => outcome'[j] = outcome[j]]_vars
    /\ [][(\E j \in Attempts : LateEvent(j)) =>
              UNCHANGED <<execPc, i, errors, execResult, outcome>>]_vars
    /\ [](\A j \in Tried :
              (j < i /\ execPc # "idle") =>
                  /\ Failed(j)
                  /\ errors[j].modelAttempted = modelsToTry[j]
                  /\ (errors[j].error = TimeoutMessage) <=> (outcome[j] = "timeout"))

C3_Witness ==
    /\ execPc = "done"
    /\ outcome[1] = "timeout" /\ chat[1] = "resolved"
    /\ outcome[2] = "resolved" /\ timer[2] = "fired"
    /\ execResult = [kind |-> "success", modelUsed |-> modelsToTry[2]]
    /\ Len(errors) = 1 /\ errors[1].error = TimeoutMessage

(***************************************************************************)
(* Properties of the registry and the selector                             *)
(***************************************************************************)
(* The ranking a selection shows: the selected score, then the             *)
(* alternatives.                                                           *)
Ranking == <<selection.score>> \o selection.alternatives

ScoreFields ==
    {"score", "domainMatch", "complexityMatch", "capabilityMatch", "contextMatch",
     "latencyScore"}

AvailableNow == {k \in 1..Len(profiles) : profiles[k].available}

(* C5: score bounds. In a selection every ModelScore has its score and its *)
(* five sub-scores within 0 and 100, and the score of the selected model   *)
(* is greater than or equal to the score of every alternative.             *)
C5_ScoreBounds ==
    selection.kind = "ok" =>
        /\ \A k \in 1..Len(Ranking) : \A f \in ScoreFields :
               Ranking[k][f] >= 0 /\ Ranking[k][f] <= 10000
        /\ \A k \in 1..Len(selection.alternatives) :
               selection.score.score >= selection.alternatives[k].score

(* C6: tie-break, the comparator read literally. Two candidates whose      *)
(* scores differ by less than 0.01 are ranked by ascending latencyScore,   *)
(* so the selected one has the smallest latencyScore among the candidates  *)
(* tied with it. Scores have two decimals: two of them differ by less than *)
(* 0.01 when they are equal (the comparator, computing in doubles, takes   *)
(* more pairs than these as tied).                                         *)
C6_TieBreakLiteral ==
    selection.kind = "ok" =>
        \A p, q \in 1..Len(Ranking) :
            (p < q /\ Ranking[p].score = Ranking[q].score) =>
                Ranking[p].latencyScore <= Ranking[q].latencyScore

(* C7: tie-break, the documented intent. Among the available candidates    *)
(* whose score equals the score of the selected model, the selected model  *)
(* has the lowest estimatedLatency.                                        *)
C7_TieBreakIntent ==
    selection.kind = "ok" =>
        \A k, s \in AvailableNow :
            (/\ profiles[s].name = selection.selectedModel
             /\ scoreModel(selTask, profiles[k]).score = selection.score.score) =>
                profiles[s].estimatedLatency <= profiles[k].estimatedLatency

C10_NeverRejects ==
    agentPc = "done" =>
        /\ agentResult.kind = "resolved"
        /\ "error" \in DOMAIN agentResult.value.result.metadata =>
               /\ agentResult.value.execution.modelUsed = "none"
               /\ agentResult.value.selection.selectedModel = "none"
               /\ agentResult.value.selection.alternatives = <<>>

(***************************************************************************)
(* C12.  Strictly sequential fallback: the chat calls issued so far are a  *)
(* prefix of [primary] ++ fallbacks in that order, and whenever the        *)
(* attempt on a candidate has been started, the attempt on every earlier   *)
(* candidate has ended as a failure or a timeout and has been recorded.    *)
(***************************************************************************)
Started(j) == outcome[j] # "none"

C12_SequentialFallback ==
    /\ Len(chatLog) <= Len(modelsToTry)
    /\ chatLog = SubSeq(modelsToTry, 1, Len(chatLog))
    /\ \A j \in Attempts :
          Started(j) =>
             /\ j <= Len(chatLog)
             /\ Len(errors) >= j - 1
             /\ \A k \in 1..(j - 1) : Failed(k)

C12_Witness ==
    /\ Len(chatLog) = 3
    /\ chatLog[1] # chatLog[2]
    /\ outcome[1] = "rejected"
    /\ outcome[2] = "timeout"
    /\ outcome[3] = "pending"

(***************************************************************************)
(* C13.  No parallel model invocations: at most one chat call issued for   *)
(* the request is outstanding at any time, also after an attempt has timed *)
(* out and the next candidate has been started.                            *)
(***************************************************************************)
Outstanding == {j \in Attempts : chat[j] = "pending"}

C13_NoParallelChat == Cardinality(Outstanding) <= 1

(***************************************************************************)
(* C14.  Characterization example: parseTask on "Write a function to       *)
(* calculate fibonacci numbers" with no explicit type and no context       *)
(* yields taskType code_generation, domain code and capabilities that      *)
(* contain code_generation and reasoning.                                  *)
(***************************************************************************)
C14_FibonacciExample ==
    (input = FibonacciInput /\ parsed # NotParsed) =>
        /\ parsed.kind = "ok"
        /\ parsed.task.taskType = "code_generation"
        /\ parsed.task.domain = "code"
        /\ {"code_generation", "reasoning"} \subseteq parsed.task.requiredCapabilities

(***************************************************************************)
(* C16.  For every input that passes validation, whatever its description, *)
(* context and explicit task type, the descriptor returned by parseTask    *)
(* has all six fields populated and its requiredCapabilities contains      *)
(* "reasoning".                                                            *)
(***************************************************************************)
DescriptorFields ==
    {"description", "taskType", "domain", "complexity", "requiredCapabilities",
     "contextSize"}

C16_DescriptorComplete ==
    (parsed # NotParsed /\ parsed.kind = "ok") =>
        /\ DOMAIN parsed.task = DescriptorFields
        /\ parsed.task.description # <<>>
        /\ parsed.task.taskType # "null"
        /\ parsed.task.domain \in {"code", "math", "reasoning", "multimodal", "general"}
        /\ \E k \in DOMAIN ComplexityLevels : parsed.task.complexity = ComplexityLevels[k]
        /\ parsed.task.contextSize \in Nat
        /\ "reasoning" \in parsed.task.requiredCapabilities

C16_Witness ==
    /\ parsed # NotParsed
    /\ parsed.kind = "ok"
    /\ input.taskType # <<>>
    /\ input.context # NoContext
    /\ parsed.task.domain = "general"
    /\ parsed.task.requiredCapabilities = {"reasoning"}

(***************************************************************************)
(* C20.  Characterization and selection errors abort the request and are   *)
(* never retried: in a request where parseTask raises ValidationError or   *)
(* selectModel raises AvailabilityError no chat call is issued for any     *)
(* model, and a chat call is issued only after both parse and select have  *)
(* succeeded for that request.                                             *)
(***************************************************************************)
ChatIssued == chatLog # <<>>

C20_ErrorsAbort ==
    /\ agentPc \in {"initialize", "parse", "select", "catch"} => ~ChatIssued
    /\ (parsed # NotParsed /\ parsed.kind = "ValidationError") => ~ChatIssued
    /\ selection.kind = "AvailabilityError" => ~ChatIssued
    /\ (agentPc = "done" /\ agentResult.kind = "rejected") => ~ChatIssued
    /\ ChatIssued =>
          /\ TrimmedLength(input.description) >= MinDescriptionLength
          /\ parsed # NotParsed /\ parsed.kind = "ok"
          /\ agentPc = "execute" =>
                /\ selection.kind = "ok"
                /\ selTask = parsed.task
                /\ chatLog[1] = selection.selectedModel
                /\ AvailableNow # {}

C20_Witness ==
    /\ agentPc = "done"
    /\ selection.kind = "AvailabilityError"
    /\ agentResult.kind = "resolved"
    /\ agentResult.value.result.metadata.error.kind = "AvailabilityError"
    /\ profiles # <<>>
    /\ ~ChatIssued

(***************************************************************************)
(* C17.  Every call of loadProfiles whose source yields zero valid         *)
(* profiles after per-entry validation fails with ConfigurationError,      *)
(* whatever registry operations preceded it; a source with at least one    *)
(* valid entry never fails because of its invalid entries.                 *)
(***************************************************************************)
ValidEntries(config) ==
    {k \in 1..Len(config.entries) : config.entries[k] \in ValidNames}

C17_EmptyLoadFails ==
    lastCall.op = "loadProfiles" =>
        IF ~lastCall.config.readable \/ ValidEntries(lastCall.config) = {}
        THEN loadResult = "ConfigurationError"
        ELSE loadResult = "ok"

(***************************************************************************)
(* C18.  Registry validity: after any sequence of loadProfiles and         *)
(* verifyAvailability calls every profile held by the registry passed      *)
(* per-entry validation; an entry that fails validation is never stored    *)
(* and never returned by getAllProfiles or getAvailableProfiles.           *)
(***************************************************************************)
PassedValidation(p) ==
    /\ p.name \in CatalogNames
    /\ RequiredFields \subseteq Catalog[p.name].fields
    /\ p.domains # {}
    /\ p.capabilities # {}
    /\ \E k \in DOMAIN ComplexityLevels : p.maxComplexity = ComplexityLevels[k]
    /\ p.contextWindow > 0
    /\ p.estimatedLatency >= 0
    /\ p.costPerToken >= 0

C18_RegistryValid ==
    /\ \A k \in 1..Len(profiles) : PassedValidation(profiles[k])
    /\ \A k \in 1..Len(getAvailableProfiles(profiles)) :
          PassedValidation(getAvailableProfiles(profiles)[k])
    /\ \A j, k \in 1..Len(profiles) : profiles[j].name = profiles[k].name => j = k

C18_Witness ==
    /\ lastCall.op = "loadProfiles"
    /\ Len(lastCall.config.entries) = 2
    /\ lastCall.config.entries[1] = "bad"
    /\ loadResult = "ok"
    /\ lastCall.config.entries[2] \in ProfileNames(profiles)
    /\ "bad" \notin ProfileNames(profiles)
    /\ getAvailableProfiles(profiles) # <<>>

(***************************************************************************)
(* C19.  verifyAvailability(S) sets the available flag of every profile of *)
(* the registry to (name in S) and changes nothing else: the profiles,     *)
(* their order and their other fields stay, a configured model that is not *)
(* in S stays registered, and getAvailableProfiles returns exactly the     *)
(* registered profiles named in S.                                         *)
(***************************************************************************)
C19_VerifyFrame ==
    [][lastCall'.op = "verifyAvailability" =>
          /\ Len(profiles') = Len(profiles)
          /\ \A k \in 1..Len(profiles) :
                profiles'[k] =
                    [profiles[k] EXCEPT !.available =
                                            (profiles[k].name \in lastCall'.models)]
          /\ ProfileNames(getAvailableProfiles(profiles')) =
                 lastCall'.models \cap ProfileNames(profiles)
          /\ loadResult' = loadResult]_vars

C19_Witness ==
    /\ lastCall.op = "verifyAvailability"
    /\ Len(profiles) = 3
    /\ Len(getAvailableProfiles(profiles)) = 1
    /\ profiles[1].available
    /\ lastCall.models \ ProfileNames(profiles) # {}

(***************************************************************************)
(* C15.  End-to-end scoring example: with the single available profile     *)
(* {domains [code], maxComplexity expert, capabilities [code_generation,   *)
(* reasoning], contextWindow 100000, estimatedLatency 3000}, selecting for *)
(* the descriptor parsed from the fibonacci description gives domainMatch  *)
(* 100, complexityMatch 100 and capabilityMatch 100 and selects that       *)
(* profile with no alternatives. Sub-scores are in hundredths.             *)
(***************************************************************************)
C15_ScoringExample ==
    (input = FibonacciInput /\ profiles = ExampleRegistry /\ selection # NoSelection) =>
        /\ selection.kind = "ok"
        /\ selection.score.domainMatch = 100 * 100
        /\ selection.score.complexityMatch = 100 * 100
        /\ selection.score.capabilityMatch = 100 * 100
        /\ selection.selectedModel = "example"
        /\ selection.alternatives = <<>>

(***************************************************************************)
(* C11.  Request isolation: the logs returned in the result of each of two *)
(* concurrent executeTask requests are exactly the entries emitted while   *)
(* processing that request, whatever the interleaving of the requests at   *)
(* their await points.                                                     *)
(***************************************************************************)
C11_RequestIsolation ==
    \A r \in Requests :
        reqResult[r].kind = "resolved" => reqResult[r].logs = emitted[r]

(***************************************************************************)
(* C23.  Explicit task type: a type the synonym table recognizes           *)
(* (case-insensitively) gives the table's target whatever the description  *)
(* says; an unrecognized one gives what text inference gives for the       *)
(* description; in every case taskType is one of the seven task types.     *)
(***************************************************************************)
TaskTypes ==
    {"code_generation", "bug_fixing", "code_review", "test_writing",
     "documentation", "architecture_analysis", "general"}

C23_ExplicitType ==
    (parsed # NotParsed /\ parsed.kind = "ok") =>
        LET key == ToLowerCase(input.taskType)
        IN  /\ parsed.task.taskType \in TaskTypes
            /\ key \in DOMAIN typeMap => parsed.task.taskType = typeMap[key]
            /\ key \notin DOMAIN typeMap =>
                  parsed.task.taskType =
                      inferTaskType(ToLowerCase(Trim(input.description)))

(***************************************************************************)
(* C28.  Alternatives: with n >= 1 available profiles selectModel returns  *)
(* the candidate ranked first as selectedModel and the candidates ranked   *)
(* second to fourth as alternatives: exactly min(3, n - 1) entries, in     *)
(* ranking order, without the selected model and without a model twice.    *)
(***************************************************************************)
RankedCandidates ==
    LET available == getAvailableProfiles(profiles)
    IN  SortScores([k \in 1..Len(available) |-> scoreModel(selTask, available[k])])

ComplexityRank ==
    [c \in {"simple", "moderate", "complex", "expert"} |->
        CASE c = "simple" -> 0 [] c = "moderate" -> 1 [] c = "complex" -> 2
          [] c = "expert" -> 3]

C26_ComplexityMatch ==
    selection.kind = "ok" =>
        LET taskRank == ComplexityRank[selTask.complexity]
            modelRank == ComplexityRank[profiles[1].maxComplexity]
        IN  /\ selection.score.complexityMatch =
                  100 * (IF modelRank >= taskRank THEN 100
                         ELSE Max(0, 100 - 30 * (taskRank - modelRank)))
            /\ \A lower, higher \in DOMAIN ComplexityRank :
                  ComplexityRank[lower] <= ComplexityRank[higher] =>
                      calculateComplexityMatch(selTask, [maxComplexity |-> lower])
                          <= calculateComplexityMatch(selTask, [maxComplexity |-> higher])

C26_Witness ==
    /\ selection.kind = "ok"
    /\ selTask.complexity = "expert"
    /\ profiles[1].maxComplexity = "simple"
    /\ selection.score.complexityMatch = 100 * 10

(***************************************************************************)
(* C21.  Context window awareness: when the size of the task (description  *)
(* plus context) exceeds the context window of a model, the request is     *)
(* either not sent to that model or sent with the context truncated; the   *)
(* over-sized context is never sent whole to a model whose window it       *)
(* exceeds.                                                                *)
(***************************************************************************)
ProfileNamed(name) ==
    profiles[CHOOSE k \in 1..Len(profiles) : profiles[k].name = name]

ContextSentWhole ==
    /\ input.context # NoContext
    /\ formatContext(input.context) >= ContextFrame + input.context

C21_ContextWindow ==
    \A j \in 1..Len(chatLog) :
        (Len(formatMessage(parsed.task)) + parsed.task.contextSize
             > ProfileNamed(chatLog[j]).contextWindow)
          => ~ContextSentWhole

(***************************************************************************)
(* C30.  Bounded, duplicate-free attempts per request: the candidates      *)
(* tried in an executeTask request are the selected model followed by its  *)
(* at most three alternatives, so at most four chat calls are issued, no   *)
(* model is attempted twice, and on success execution.modelUsed is the     *)
(* selected model or one of the alternatives.                              *)
(***************************************************************************)
AlternativeNames(sel) ==
    {sel.alternatives[k].modelName : k \in 1..Len(sel.alternatives)}

C27_Termination == (execPc \in {"loop", "race"}) ~> (execPc = "done")

C27_Witness ==
    /\ execPc = "done"
    /\ execResult.kind = "errors"
    /\ Len(modelsToTry) = 3
    /\ \A j \in Tried : chat[j] = "pending" /\ outcome[j] = "timeout"

(***************************************************************************)
(* C22.  Execution log completeness: for any task execution and any agent  *)
(* configuration, the logs returned with the result record, in this order, *)
(* the task-parsing step, the model-selection step and the execution step. *)
(* Stated for a request that ran with no other request on the agent.       *)
(***************************************************************************)
ParsingSteps == {"Parsing task", "Task parsed"}

SelectionSteps == {"Selecting model", "Model selected"}

ExecutionSteps == {"Executing task", "Task execution completed", "All models failed"}

RanAlone(r) == \A q \in Requests \ {r} : reqPc[q] = "idle"

C22_LogCompleteness ==
    \A r \in Requests :
        (reqResult[r].kind = "resolved" /\ reqResult[r].outcome # "caught"
             /\ RanAlone(r)) =>
            \E a, b, c \in 1..Len(reqResult[r].logs) :
                /\ a < b /\ b < c
                /\ reqResult[r].logs[a].step \in ParsingSteps
                /\ reqResult[r].logs[b].step \in SelectionSteps
                /\ reqResult[r].logs[c].step \in ExecutionSteps

(***************************************************************************)
(* C29.  Profiles are loaded once per agent: over any interleaving of      *)
(* executeTask calls on one agent whose first load succeeds, loadProfiles  *)
(* plus verifyAvailability is performed at most once, also when several    *)
(* calls arrive before the first initialization has completed.             *)
(***************************************************************************)
C29_LoadedOnce == loadCount <= 1

(***************************************************************************)
(* C24.  tokensUsed of a successful attempt equals the token count carried *)
(* by the provider response whenever the response carries one, for every   *)
(* non-negative value, and equals ceil(contentLength / 4) only when the    *)
(* response carries none.                                                  *)
(***************************************************************************)
CeilQuarter(n) == IF n % 4 = 0 THEN n \div 4 ELSE (n \div 4) + 1

C24_TokensUsed ==
    attemptResult.success =>
        IF response.tokens # <<>>
        THEN attemptResult.tokensUsed = response.tokens[1]
        ELSE attemptResult.tokensUsed = CeilQuarter(ContentLength(response))

(***************************************************************************)
(* C25.  For every response and execution time, the confidence of a        *)
(* successful attempt is 50, plus 10 for a response of more than 1000      *)
(* characters, plus 10 for more than 2000, plus 10 for an execution time   *)
(* strictly between 5000 and 30000 ms, minus 10 for one under 1000 ms,     *)
(* plus 10 for a code fence, plus 5 for "because" or "reason" in any       *)
(* letter case, clamped to 0..100; a failed attempt has confidence 0; so   *)
(* every confidence lies in 0..100.                                        *)
(***************************************************************************)
Bonus(condition, points) == IF condition THEN points ELSE 0

MentionsReasoning(text) ==
    \E word \in { <<"b", "e", "c", "a", "u", "s", "e">>,
                   <<"r", "e", "a", "s", "o", "n">> } :
        \E k \in 0..(Len(text) - Len(word)) :
            \A j \in 1..Len(word) :
                text[k + j] = word[j]
                    \/ (text[k + j] \in DOMAIN LowerOf /\ LowerOf[text[k + j]] = word[j])

StatedConfidence ==
    LET raw == 50 + Bonus(ContentLength(response) > 1000, 10)
                  + Bonus(ContentLength(response) > 2000, 10)
                  + Bonus(5000 < executionTime /\ executionTime < 30000, 10)
                  - Bonus(executionTime < 1000, 10)
                  + Bonus(Includes(response.text, Fence), 10)
                  + Bonus(MentionsReasoning(response.text), 5)
    IN  IF raw < 0 THEN 0 ELSE IF raw > 100 THEN 100 ELSE raw

C25_Confidence ==
    /\ attemptResult.confidence \in 0..100
    /\ (~attemptResult.pending /\ attemptResult.success) =>
           attemptResult.confidence = StatedConfidence
    /\ (~attemptResult.pending /\ ~attemptResult.success) =>
           attemptResult.confidence = 0

(* A long, slow answer giving a reason in capitals scores 85; a failure 0. *)
C25_Witness ==
    /\ attemptResult.success
    /\ attemptResult.confidence = 85
    /\ ContentLength(response) > 2000
    /\ executionTime = 5001
    /\ ~Includes(response.text, <<"r", "e", "a", "s", "o", "n">>)
    /\ MentionsReasoning(response.text)

====
